---- MODULE Spec2Model ----
(***************************************************************************)
(* A model of scripts/bash-test-runner.py: suite resolution                *)
(* (get_suite_tests, list_tests), the execution of one test                *)
(* (run_single_test) and the two scheduling strategies of run_suite        *)
(* (_run_suite_sequential, _run_suite_parallel).                           *)
(*                                                                         *)
(* Names are sequences of tokens.  No token is a prefix of another and two *)
(* tokens differ at their first character ('-', 'a', 'm', 'x', 'y') or,    *)
(* for the two file suffixes, at their second ('.r', '.t'), so comparing   *)
(* two token sequences lexicographically is comparing the strings they     *)
(* spell character by character, and a name occurs in another exactly      *)
(* when its string is a substring of the other's.                          *)
(***************************************************************************)
EXTENDS Integers, Sequences, FiniteSets, TLC

\* ------------------------------------------------------------------ bounds

\* The longest run-<suite> script text, in tokens.
MaxScriptLen == 2
\* The largest job count given on the command line.
MaxJobs == 2
\* The most suite names given to one suite command.
MaxSuites == 2
\* The largest --num-lines given to triage.
MaxNumLines == 2
\* The most CPUs of the machine the runner is on.
MaxCpus == 2

\* ------------------------------------------------------------------ names

Tokens == {"-tests", ".right", ".tests", "all", "minimal", "x", "y"}

\* The order of the tokens as strings: '-' < '.r' < '.t' < 'a' < 'm' < 'x' < 'y'.
TokenRank(t) ==
    CASE t = "-tests" -> 1
      [] t = ".right" -> 2
      [] t = ".tests" -> 3
      [] t = "all" -> 4
      [] t = "minimal" -> 5
      [] t = "x" -> 6
      [] t = "y" -> 7

N_x == <<"x">>
N_y == <<"y">>
N_xt == <<"x", "-tests">>
N_all == <<"all">>
N_minimal == <<"minimal">>

Names == {N_x, N_y, N_xt, N_all, N_minimal}

\* Python's str order, as sorted() uses it.
RECURSIVE StrLess(_, _)
StrLess(a, b) ==
    IF a = <<>> THEN b # <<>>
    ELSE IF b = <<>> THEN FALSE
    ELSE IF Head(a) = Head(b) THEN StrLess(Tail(a), Tail(b))
    ELSE TokenRank(Head(a)) < TokenRank(Head(b))

\* `f in t` for strings.
StrContains(t, f) ==
    \E i \in 1..(Len(t) + 1) :
        /\ i + Len(f) - 1 <= Len(t)
        /\ SubSeq(t, i, i + Len(f) - 1) = f

\* t.endswith('-tests')
EndsWithTests(t) == Len(t) >= 1 /\ t[Len(t)] = "-tests"

\* t.rsplit('-tests', 1)[0], for a t that ends with '-tests'.
StripTests(t) == SubSeq(t, 1, Len(t) - 1)

RECURSIVE sorted(_)
sorted(S) ==
    IF S = {} THEN <<>>
    ELSE LET m == CHOOSE m \in S : \A o \in S \ {m} : StrLess(m, o)
         IN <<m>> \o sorted(S \ {m})

SeqRange(s) == {s[i] : i \in 1..Len(s)}

\* The file names tests_dir / f"{name}.tests" and tests_dir / f"{name}.right".
TestsFile(n) == Append(n, ".tests")
RightFile(n) == Append(n, ".right")

\* Path.stem: the file name without its last suffix; a name that is nothing
\* but a dot and letters has no suffix.
stem(f) ==
    IF Len(f) >= 2 /\ f[Len(f)] \in {".tests", ".right"} THEN SubSeq(f, 1, Len(f) - 1)
    ELSE f

\* ---------------------------------------------------------- suite scripts

(* The text of a run-<suite> script, as far as the pattern of                *)
(* get_suite_tests can tell its pieces apart:                                *)
(*   "sh"    `sh run-NAME`, which the first alternative matches;             *)
(*   "case"  `run-NAME)` or `run-NAME|`, which the second alternative        *)
(*           matches;                                                        *)
(*   "bare"  `run-NAME` neither after `sh ` nor before `)` or `|`, which     *)
(*           nothing matches (a comment, `. ./run-NAME`);                    *)
(*   "text"  anything else (`${THIS_SH} ./x.tests`, `sh $x`).                *)
RefPieces == [k : {"sh", "case"}, n : Names]
Pieces == RefPieces \cup {[k |-> "bare", n |-> N_x], [k |-> "text", n |-> <<>>]}

RECURSIVE SeqsUpTo(_, _)
SeqsUpTo(S, n) ==
    IF n = 0 THEN {<<>>}
    ELSE LET shorter == SeqsUpTo(S, n - 1)
         IN shorter \cup {Append(s, e) : s \in {t \in shorter : Len(t) = n - 1}, e \in S}

Scripts == SeqsUpTo(Pieces, MaxScriptLen)

\* ------------------------------------------------------------------ state

VARIABLES
    run_scripts,    \* tests_dir/run-<name>: the names that have one -> its text
    dir_files,      \* the names of the other files of tests_dir
    behaviour,      \* what the process of each test does, and what fails around it
    suite_name,     \* args.suite_names: the suite being run
    test_filter,    \* args.filter; <<>> is None (or ''), which filters nothing
    jobs,           \* main: jobs, the job count run_suite is called with
    pc,             \* where main is: "init", "running", "returned", "failed"
    tests,          \* run_suite: the resolved and filtered names
    call,           \* each test's call of run_single_test (its future, when parallel)
    ret,            \* the TestResult each finished call returned
    proc,           \* the child process of each call
    worker,         \* the workers that took each name, in the order they did
    desc,           \* the processes that child started
    results,        \* run_suite: results
    counts,         \* the loop's counters: completed_count, passed_count, failed_count
    collected,      \* the futures as_completed has yielded
    pool_broken,    \* a worker process died: the pool is broken
    suite_result,   \* the SuiteResult run_suite returned
    prior,          \* what the previous invocation on this tests directory ended with
    resolved,       \* the outcomes of the resolutions made so far
    resolving,      \* get_suite_tests, followed statement by statement
    cmd,            \* run_single_test: the command each call ran, <<>> before it
    env,            \* run_single_test: the environment each call gave its process
    suite_names,    \* args.suite_names
    json_output,    \* args.json_output; <<>> when --json is not given
    output_dir,     \* args.output_dir; <<>> when --output-dir is not given
    files,          \* the files main has written: path -> the SuiteResult dumped
    suite_results,  \* main: the SuiteResults of the suites run so far
    exit_code,      \* the exit code of the command: <<>> while it runs, then <<code>>
    reported,       \* what main's handler printed for an exception, <<>> without one
    isatty,         \* sys.stderr.isatty()
    no_color,       \* NO_COLOR is set in the environment
    verbose,        \* args.verbose
    stderr_out,     \* what run_suite has written to sys.stderr, write by write
    json_doc,       \* triage: the document json.load read from args.json_file
    num_lines,      \* triage: args.num_lines
    timeout_tests,  \* triage: the entries of status timeout not yet rendered
    failed_tests,   \* triage: the entries of status fail not yet rendered
    rendered,       \* triage: what has been printed, entry by entry
    args_jobs,      \* args.jobs, as given on the command line
    cpu_count       \* what multiprocessing.cpu_count() returns

env_vars == <<run_scripts, dir_files, behaviour, isatty, no_color, cpu_count>>
arg_vars == <<suite_name, test_filter, jobs, verbose, args_jobs, json_output,
             output_dir>>
run_vars == <<pc, tests, call, ret, proc, desc, worker, results, counts, collected,
              pool_broken, suite_result, prior>>
main_vars == <<suite_names, files, suite_results, exit_code, reported>>
triage_vars == <<json_doc, num_lines, timeout_tests, failed_tests, rendered>>
vars == <<env_vars, arg_vars, run_vars, resolved, resolving, cmd, env, main_vars,
          stderr_out, triage_vars>>

\* --------------------------------------------------------- suite resolution

\* Path.exists() of tests_dir/run-<name>.
RunScriptExists(n) == n \in DOMAIN run_scripts

\* Path.exists() of tests_dir/<name>.tests and of tests_dir/<name>.right.
TestsFileExists(n) == TestsFile(n) \in dir_files
RightFileExists(n) == RightFile(n) \in dir_files

\* tests_dir.glob("*.tests")
glob_tests == {f \in dir_files : Len(f) >= 1 /\ f[Len(f)] = ".tests"}

\* list_tests: the stems of tests_dir/*.tests, as a set, sorted.
list_tests == sorted({stem(f) : f \in glob_tests})

\* re.finditer of the pattern over the script text: the matches, in text order.
run_matches(content) == SelectSeq(content, LAMBDA p : p.k \in {"sh", "case"})

\* The loop without `test_name not in seen`.
RECURSIVE CollectTests_no_seen(_, _, _)
CollectTests_no_seen(matches, suite, acc) ==
    IF matches = <<>> THEN acc
    ELSE LET test_name == Head(matches).n
         IN CollectTests_no_seen(Tail(matches), suite,
                IF /\ test_name # <<>>
                   /\ test_name # suite
                   /\ test_name \notin {N_all, N_minimal}
                THEN Append(acc, test_name)
                ELSE acc)

\* The loop of get_suite_tests over the matches; acc is `tests`, whose
\* elements are those of `seen`.
RECURSIVE CollectTests(_, _, _)
CollectTests(matches, suite, acc) ==
    IF matches = <<>> THEN acc
    ELSE LET test_name == Head(matches).n
         IN CollectTests(Tail(matches), suite,
                IF /\ test_name # <<>>
                   /\ test_name # suite
                   /\ test_name \notin {N_all, N_minimal}
                   /\ test_name \notin SeqRange(acc)
                THEN Append(acc, test_name)
                ELSE acc)

\* get_suite_tests of a suite whose script exists.
get_suite_tests(suite) ==
    LET matches == run_matches(run_scripts[suite])
    IN IF matches # <<>> THEN CollectTests(matches, suite, <<>>) ELSE <<suite>>

\* The resolution without `if suite_name == "all"`.
ResolveSuite_parses_all(suite) ==
    IF ~RunScriptExists(suite) THEN [ok |-> FALSE, tests |-> <<>>]
    ELSE [ok |-> TRUE, tests |-> get_suite_tests(suite)]

\* The resolution without `if not suite_script.exists()`: a name without a
\* script is taken as a suite of itself.
ResolveSuite_absent_is_atomic(suite) ==
    IF suite = N_all THEN [ok |-> TRUE, tests |-> list_tests]
    ELSE IF ~RunScriptExists(suite) THEN [ok |-> TRUE, tests |-> <<suite>>]
    ELSE [ok |-> TRUE, tests |-> get_suite_tests(suite)]

\* A call of get_suite_tests in progress: where it is, the matches the loop
\* has not visited yet, `tests`, and the number of scripts it has opened.
Resolving(at, matches, ts, opened) ==
    [pc |-> at, matches |-> matches, tests |-> ts, opened |-> opened]

NotResolving == Resolving("idle", <<>>, <<>>, 0)

\* A loop that goes on in the script a match refers to.
RestOfMatches_follows_references(matches) ==
    LET test_name == Head(matches).n
    IN IF RunScriptExists(test_name) /\ run_matches(run_scripts[test_name]) # <<>>
       THEN run_matches(run_scripts[test_name])
       ELSE Tail(matches)

\* `for match in run_matches`: after a match the loop goes to the next one of
\* the same script; no referenced script is opened.
RestOfMatches(matches) ==
    Tail(matches)

\* The body of the loop for one match.
KeepsMatch(test_name, suite, ts) ==
    /\ test_name # <<>>
    /\ test_name # suite
    /\ test_name \notin {N_all, N_minimal}
    /\ test_name \notin SeqRange(ts)

\* The first statements of both strategies: the names of the suite, or the
\* ValueError of get_suite_tests.
ResolveSuite(suite) ==
    IF suite = N_all THEN [ok |-> TRUE, tests |-> list_tests]
    ELSE IF ~RunScriptExists(suite) THEN [ok |-> FALSE, tests |-> <<>>]
    ELSE [ok |-> TRUE, tests |-> get_suite_tests(suite)]

\* tests = [t for t in tests if test_filter in t], when test_filter is truthy.
ApplyFilter(ts, f) ==
    IF f # <<>> THEN SelectSeq(ts, LAMBDA t : StrContains(t, f)) ELSE ts

\* A run-<name> script that itself runs other suites.
IsComposite(n) == RunScriptExists(n) /\ run_matches(run_scripts[n]) # <<>>

\* ------------------------------------------------------------ file contents

\* The bytes of <name>.right, of every test that has one.
ExpectedBytes == <<"ok", "\n">>
WrongBytes == <<"no", "\n">>

\* Reading in text mode (Path.read_text, subprocess text=True): universal
\* newlines turn "\r\n" and "\r" into "\n".
RECURSIVE read_text(_)
read_text(bytes) ==
    IF bytes = <<>> THEN <<>>
    ELSE IF Head(bytes) = "\r"
    THEN IF Len(bytes) >= 2 /\ bytes[2] = "\n"
         THEN <<"\n">> \o read_text(Tail(Tail(bytes)))
         ELSE <<"\n">> \o read_text(Tail(bytes))
    ELSE <<Head(bytes)>> \o read_text(Tail(bytes))

(* What the environment does to one test.                                    *)
(*   fault   "none"; "setup": TemporaryDirectory() or get_base_env raises    *)
(*           (no usable temporary directory, PATH unset); "launch":          *)
(*           subprocess.run raises OSError; "read": read_text raises;        *)
(*           "diff": running diff raises                                     *)
(*   ends    "exit": the process ends by itself within the timeout;          *)
(*           "hang": it runs longer than the timeout                         *)
(*   rc      its exit code                                                   *)
(*   stdout, stderr   the bytes it writes to its pipes                       *)
(*   scratch_written, scratch   whether it writes $BASH_TSTOUT, and what     *)
(*   tree    whether it starts processes of its own                          *)
Behaviour(fault, ends, rc, out, err, written, scratch, tree) ==
    [fault |-> fault, ends |-> ends, rc |-> rc, stdout |-> out, stderr |-> err,
     scratch_written |-> written, scratch |-> scratch, tree |-> tree]

B_pass == Behaviour("none", "exit", 0, ExpectedBytes, <<>>, FALSE, <<>>, TRUE)
B_fail == Behaviour("none", "exit", 1, WrongBytes, <<"err", "\n">>, FALSE, <<>>, FALSE)
B_hang == Behaviour("none", "hang", 0, <<>>, <<>>, FALSE, <<>>, FALSE)
B_hang_tree == Behaviour("none", "hang", 0, <<>>, <<>>, FALSE, <<>>, TRUE)
B_setup_fault == Behaviour("setup", "exit", 0, <<>>, <<>>, FALSE, <<>>, FALSE)
B_launch_fault == Behaviour("launch", "exit", 0, <<>>, <<>>, FALSE, <<>>, FALSE)

SchedBehaviours == {B_pass, B_fail, B_hang, B_hang_tree, B_setup_fault, B_launch_fault}

\* ------------------------------------------------------- run_single_test

\* parser.add_argument("-t", "--timeout", type=int, default=30)
DefaultTimeout == 30

Statuses == {"pass", "fail", "timeout", "error"}

TestResult(n, status, output, error) ==
    [name |-> n, status |-> status, output |-> output, error |-> error]

NoResult == TestResult(<<>>, "none", <<>>, <<>>)

\* The script path without the alias rule.
run_script_path_no_alias(n) == n

\* The script run_single_test runs for a name: run-<name>, or run-<name
\* without -tests> when only that one exists.
run_script_path(n) ==
    IF ~RunScriptExists(n) /\ EndsWithTests(n) /\ RunScriptExists(StripTests(n))
    THEN StripTests(n)
    ELSE n

\* The selection with <name>.tests looked for first.
Protocol_tests_file_first(n) ==
    IF TestsFileExists(n) THEN "tests_file"
    ELSE IF RunScriptExists(run_script_path(n)) THEN "suite_script"
    ELSE "none"

\* use_exit_code is True ("suite_script"), False ("tests_file"), or neither
\* artifact exists ("none").
Protocol(n) ==
    IF RunScriptExists(run_script_path(n)) THEN "suite_script"
    ELSE IF TestsFileExists(n) THEN "tests_file"
    ELSE "none"

\* os.environ of the runner: what the test processes inherit.
os_environ == ("PATH" :> <<"/usr/bin">>) @@ ("HOME" :> <<"/root">>)

\* str(self.tests_dir), str(self.bash_source_dir), str(self.shell_path) and
\* str(test_output_path)
tests_dir == <<"bash/", "tests">>
bash_source_dir == <<"bash/">>
shell_path == <<"shell">>
test_output_path == <<"tmp/", "test.out">>

\* get_base_env(): an environment is a function from names to values.
get_base_env ==
    ("BUILD_DIR" :> bash_source_dir) @@ ("THIS_SH" :> shell_path)
        @@ ("PATH" :> tests_dir \o <<":">> \o os_environ["PATH"]) @@ os_environ

\* env = self.get_base_env(); env["BASH_TSTOUT"] = str(test_output_path):
\* set before the protocol is chosen, and passed to subprocess.run as it is.
TestEnv == ("BASH_TSTOUT" :> test_output_path) @@ get_base_env

\* cmd: ["sh", run_script_path] or [shell_path, tests_file_path].
Command(n) ==
    IF Protocol(n) = "suite_script" THEN <<"sh", "run-">> \o run_script_path(n)
    ELSE shell_path \o TestsFile(n)

NeitherResult(n) ==
    TestResult(n, "error", <<>>, <<"Neither run- nor .tests found">>)

TimeoutResult(n) ==
    TestResult(n, "timeout", <<>>,
               <<"Test exceeded timeout of ", ToString(DefaultTimeout), "s">>)

\* except Exception as e: status error, error=str(e).
ExceptionResult(n, e) == TestResult(n, "error", <<>>, <<e>>)

\* The exit-code classification with a failure stored as a pass is stored:
\* both streams in output, no error.
ExitCodeResult_fail_merges_streams(n, rc, out, err) ==
    IF rc = 0 THEN TestResult(n, "pass", out \o err, <<>>)
    ELSE TestResult(n, "fail", out \o err, <<>>)

\* The exit-code classification with stderr kept as error on exit 0 too.
ExitCodeResult_keeps_stderr(n, rc, out, err) ==
    IF rc = 0 THEN TestResult(n, "pass", out, err)
    ELSE TestResult(n, "fail", out, err)

ExitCodeResult(n, rc, out, err) ==
    IF rc = 0 THEN TestResult(n, "pass", out \o err, <<>>)
    ELSE TestResult(n, "fail", out, err)

\* The classification that never reads the file at $BASH_TSTOUT.
Classify_pipes_only(n, rc, out, err) ==
    IF Protocol(n) = "suite_script" THEN ExitCodeResult(n, rc, out, err)
    ELSE IF RightFileExists(n)
    THEN IF out \o err = read_text(ExpectedBytes)
         THEN TestResult(n, "pass", out \o err, <<>>)
         ELSE TestResult(n, "fail", out \o err, <<"diff -u">>)
    ELSE ExitCodeResult(n, rc, out, err)

\* The statements after subprocess.run returned: rc, out and err are
\* result.returncode, result.stdout and result.stderr.
Classify(n, rc, out, err) ==
    LET b == behaviour[n]
    IN IF Protocol(n) = "suite_script" THEN ExitCodeResult(n, rc, out, err)
       ELSE IF RightFileExists(n)
       THEN IF b.fault = "read" THEN ExceptionResult(n, "read_text failed")
            ELSE LET actual_output == IF b.scratch_written THEN read_text(b.scratch)
                                      ELSE out \o err
                     expected_output == read_text(ExpectedBytes)
                 IN IF actual_output = expected_output
                    THEN TestResult(n, "pass", actual_output, <<>>)
                    ELSE IF b.fault = "diff"
                    THEN ExceptionResult(n, "No such file or directory: 'diff'")
                    ELSE TestResult(n, "fail", actual_output, <<"diff -u">>)
       ELSE ExitCodeResult(n, rc, out, err)

\* A kill of the whole process group of the runner.
KilledOnTimeout_group(n) == {m \in DOMAIN proc : proc[m] = "running"}

\* process.kill() in subprocess.run, when the timeout expires: the processes
\* it kills.
KilledOnTimeout(n) == {n}

\* ------------------------------------------------------------- run_suite

\* run_suite: jobs > 1 is _run_suite_parallel, anything else sequential.
Parallel(j) == j > 1

SuiteResult(suite, res, passed, failed, timeout, error) ==
    [suite_name |-> suite, total |-> Len(res), passed |-> passed, failed |-> failed,
     timeout |-> timeout, error |-> error, tests |-> res]

NoSuiteResult == SuiteResult(<<>>, <<>>, 0, 0, 0, 0)

\* sum(1 for r in results if r.status == status)
CountStatus(res, status) == Cardinality({i \in 1..Len(res) : res[i].status = status})

\* test_order = {name: idx for idx, name in enumerate(tests)}: a name that
\* occurs twice keeps its last index.
test_order(ts, n) ==
    LET at == {i \in 1..Len(ts) : ts[i] = n}
    IN IF at = {} THEN 999
       ELSE (CHOOSE i \in at : \A j \in at : j <= i) - 1

\* The results of the tests that failed or timed out left out.
SortByTestOrder_drops_fail_and_timeout(res, ts) ==
    SelectSeq(res, LAMBDA r : r.status \notin {"fail", "timeout"})

\* The results left in completion order.
SortByTestOrder_unsorted(res, ts) == res

\* list.sort(key=...): a stable sort, here by insertion.
RECURSIVE InsertByKey(_, _, _)
InsertByKey(sorted_res, r, ts) ==
    IF sorted_res = <<>> THEN <<r>>
    ELSE LET last == sorted_res[Len(sorted_res)]
         IN IF test_order(ts, last.name) <= test_order(ts, r.name)
            THEN Append(sorted_res, r)
            ELSE Append(InsertByKey(SubSeq(sorted_res, 1, Len(sorted_res) - 1), r, ts),
                        last)

RECURSIVE SortByTestOrder(_, _)
SortByTestOrder(res, ts) ==
    IF res = <<>> THEN <<>>
    ELSE InsertByKey(SortByTestOrder(SubSeq(res, 1, Len(res) - 1), ts),
                     res[Len(res)], ts)

\* failed taken as what did not pass, as main's overall summary does.
BuildSuiteResult_failed_by_difference(suite, res) ==
    SuiteResult(suite, res, CountStatus(res, "pass"),
                Len(res) - CountStatus(res, "pass"),
                CountStatus(res, "timeout"), CountStatus(res, "error"))

\* The SuiteResult both strategies build from the results they hold.
BuildSuiteResult(suite, res) ==
    SuiteResult(suite, res, CountStatus(res, "pass"), CountStatus(res, "fail"),
                CountStatus(res, "timeout"), CountStatus(res, "error"))

\* except Exception as e, around future.result(): the result recorded for a
\* future that holds an exception.
CrashResult(n, e) == TestResult(n, "error", <<>>, <<e>>)

\* No handler around future.result().
ExceptionCaught_none(state) == FALSE

\* except Exception: whether the handler around future.result() catches the
\* exception a future in this state holds (KeyError and OSError from the
\* setup, BrokenProcessPool from the pool: all are Exceptions).
ExceptionCaught(state) == state \in {"raised", "broken"}

\* str(e) of the exception a future holds.
FutureException(state) ==
    IF state = "broken" THEN "A process in the process pool was terminated abruptly"
    ELSE "setup failed"

Finished == {"returned", "raised", "broken"}

\* Who may take the next name. ProcessPoolExecutor(max_workers=jobs) has the
\* workers 1..jobs, each of which takes a call from the queue when it is
\* not in one; the sequential loop makes its calls itself (worker 0), one
\* after the other.
FreeWorkers(j) ==
    LET busy == {worker[n][Len(worker[n])] : n \in {m \in DOMAIN call : call[m] = "running"}}
    IN IF Parallel(j) THEN (1..j) \ busy ELSE {0} \ busy

\* The workers of a pool are interchangeable: of the free ones the least
\* numbered stands for whichever takes the call.
TakingWorkers(j) == {w \in FreeWorkers(j) : \A v \in FreeWorkers(j) : w <= v}

Running == {n \in DOMAIN call : call[n] = "running"}

\* The names of the run, as a set.
TestSet == SeqRange(tests)

\* ------------------------------------------------------ progress reporting

\* A text is a sequence of pieces; "\r" and "\n" are pieces of their own and
\* an ANSI escape sequence \033[<n>m is the piece "ESC[<n>m".
RESET == "ESC[0m"
DIM == "ESC[2m"
YELLOW == "ESC[33m"
CYAN == "ESC[36m"
BRIGHT_GREEN == "ESC[92m"
BRIGHT_RED == "ESC[91m"
BRIGHT_BLUE == "ESC[94m"
BRIGHT_CYAN == "ESC[96m"

EscapeSequences == {RESET, DIM, YELLOW, CYAN, BRIGHT_GREEN, BRIGHT_RED, BRIGHT_BLUE,
                    BRIGHT_CYAN}

\* Colors.enabled()
Colors_enabled == isatty /\ ~no_color

colorize(text, color) ==
    IF Colors_enabled THEN <<color>> \o text \o <<RESET>> ELSE text

\* progress_bar(current, total, width=20)
progress_bar(current, total) ==
    IF ~Colors_enabled THEN <<ToString(current), "/", ToString(total)>>
    ELSE LET filled == IF total > 0 THEN (20 * current) \div total ELSE 0
             percentage == IF total > 0 THEN (100 * current) \div total ELSE 0
             bar == <<"bar ", ToString(filled), "/20">>
         IN (IF percentage = 100 THEN colorize(bar, BRIGHT_GREEN)
             ELSE IF percentage >= 50 THEN colorize(bar, CYAN)
             ELSE colorize(bar, YELLOW))
            \o <<" ", ToString(percentage), "%">>

\* print(text, file=sys.stderr): one write, ended by "\n".
PrintLine(text) == text \o <<"\n">>

\* The header both strategies print before their loop.
HeaderWrites(ts, j) ==
    IF verbose THEN <<>>
    ELSE <<PrintLine(colorize(
              <<"Running ", ToString(Len(ts)), " tests">>
                  \o (IF Parallel(j) THEN <<" with ", ToString(j), " workers">>
                      ELSE <<>>),
              BRIGHT_CYAN))>>

\* jobs = args.jobs; if jobs == 0: jobs = cpu_count() or 4. cpu_count()
\* returns a positive number or raises, so the 4 is never taken.
SuiteJobs(given, cpus) == IF given = 0 THEN cpus ELSE given

\* What main prints to stderr when it detects the job count.
AutoDetectWrites(given, cpus) ==
    IF given = 0 /\ ~verbose
    THEN <<PrintLine(colorize(<<"Auto-detected ", ToString(cpus), " CPUs">>, DIM))>>
    ELSE <<>>

\* The running counts of a status line.
CountsText(passed_count, failed_count) ==
    (IF passed_count > 0
     THEN colorize(<<"passed ", ToString(passed_count)>>, BRIGHT_GREEN) \o <<" ">>
     ELSE <<>>)
    \o (IF failed_count > 0
        THEN colorize(<<"failed ", ToString(failed_count)>>, BRIGHT_RED) \o <<" ">>
        ELSE <<>>)

\* The sequential loop, before run_single_test of the i-th name: the status
\* line printed with end='', or the verbose header.
BeforeTestWrites(ts, res, i) ==
    IF ~verbose
    THEN <<<<"\r">> \o progress_bar(i - 1, Len(ts)) \o <<" ">>
           \o (IF res # <<>>
               THEN CountsText(counts.passed, counts.failed)
               ELSE <<>>)
           \o colorize(<<"Running">>, DIM) \o <<" ">> \o ts[i]>>
    ELSE <<PrintLine(<<"\n">> \o colorize(<<"[", ToString(i), "/", ToString(Len(ts)), "]">>,
                                          BRIGHT_BLUE)
                     \o <<" Running ">> \o ts[i] \o <<"...">>)>>

\* status_symbol, colorized.
StatusSymbol(status) ==
    IF status = "pass" THEN colorize(<<"pass mark">>, BRIGHT_GREEN)
    ELSE IF status = "fail" THEN colorize(<<"fail mark">>, BRIGHT_RED)
    ELSE colorize(<<"warn mark">>, YELLOW)

\* The sequential loop, after run_single_test returned r.
AfterTestWrites(r) ==
    IF verbose
    THEN <<PrintLine(<<"  ">> \o StatusSymbol(r.status) \o <<" ", r.status, " ">>
                     \o colorize(<<"(duration)">>,
                                 IF r.status = "pass" THEN DIM ELSE RESET))>>
    ELSE <<>>

\* The parallel loop, after future.result() returned r, it was appended and
\* the counters were updated: res is results with r in it.
CompletedWrites(ts, res, r) ==
    IF ~verbose
    THEN <<<<"\r">> \o progress_bar(counts'.completed, Len(ts)) \o <<" ">>
           \o CountsText(counts'.passed, counts'.failed)
           \o colorize(<<"Completed">>, DIM) \o <<" ">> \o r.name>>
    ELSE <<PrintLine(StatusSymbol(r.status) \o <<" ">> \o r.name \o <<" ">>
                     \o colorize(<<"(duration)">>,
                                 IF r.status = "pass" THEN DIM ELSE RESET))>>

\* One part of the summary line.
SummaryPart(k, text, color) ==
    IF k > 0 THEN <<": ">> \o colorize(<<ToString(k), text>>, color) ELSE <<>>

\* After the loop of either strategy: the progress line is cleared and the
\* summary line printed.
FinishWrites(res) ==
    IF verbose THEN <<>>
    ELSE << <<"\r", "100 spaces", "\r">>,
            PrintLine(<<"Finished in ">> \o colorize(<<"duration">>, BRIGHT_CYAN)
                      \o SummaryPart(CountStatus(res, "pass"), " passed", BRIGHT_GREEN)
                      \o SummaryPart(CountStatus(res, "fail"), " failed", BRIGHT_RED)
                      \o SummaryPart(CountStatus(res, "timeout"), " timeout", YELLOW)
                      \o SummaryPart(CountStatus(res, "error"), " error", YELLOW)) >>

\* completed_count = 0; passed_count = 0; failed_count = 0 (the sequential
\* loop keeps no completed_count: it stays 0 there).
NoCounts == [completed |-> 0, passed |-> 0, failed |-> 0]

\* completed_count += 1, after results.append(result)
CountCompleted(c) == [c EXCEPT !.completed = @ + 1]

\* if result.status == "pass": passed_count += 1
\* elif result.status == "fail": failed_count += 1
CountStatuses(c, r) ==
    IF r.status = "pass" THEN [c EXCEPT !.passed = @ + 1]
    ELSE IF r.status = "fail" THEN [c EXCEPT !.failed = @ + 1]
    ELSE c

\* An except branch that appends the error result and counts nothing.
CountCrash_not_counted(c) == c

\* The except branch of the parallel loop: results.append(result);
\* completed_count += 1
CountCrash(c) == CountCompleted(c)

\* The place of a name in the list of the run.
IndexOf(ts, n) == CHOOSE i \in 1..Len(ts) : ts[i] = n

\* An option that was not given (None).
NoArg == <<>>

\* str(Path.cwd())
cwd == <<".">>

\* if args.output_dir or (args.json_output and len(args.suite_names) > 1)
SavesEachSuite == output_dir # NoArg \/ (json_output # NoArg /\ Len(suite_names) > 1)

\* output_dir / f"{suite_name}.json", with output_dir the --output-dir or
\* else the current directory.
SuiteJsonFile(s) ==
    (IF output_dir # NoArg THEN output_dir ELSE cwd) \o <<"/">> \o s \o <<".json">>

\* In the loop over the suites: json.dump(asdict(suite_result), f)
WriteSuiteJson(fs, s, r) ==
    IF SavesEachSuite THEN (SuiteJsonFile(s) :> r) @@ fs ELSE fs

\* After the loop: a single suite with --json and no --output-dir is dumped
\* to the path given to --json.
WriteSingleJson(fs, srs) ==
    IF Len(suite_names) = 1 /\ json_output # NoArg /\ output_dir = NoArg
    THEN (json_output :> srs[1]) @@ fs
    ELSE fs

\* raise ValueError(f"Suite not found: {suite_name}"): str(e).
SuiteNotFound(suite) == <<"Suite not found: ">> \o suite

\* An exception reaches main: except Exception as e prints "Error: {e}" and
\* calls sys.exit(1).
MainRaises(e) ==
    /\ pc' = "failed"
    /\ reported' = <<"Error: ">> \o e
    /\ exit_code' = <<1>>

\* The exit test looking at the failed counts only.
has_failures_failed_only(srs) == \E i \in 1..Len(srs) : srs[i].failed > 0

\* has_failures = any(sr.failed > 0 or sr.timeout > 0 or sr.error > 0 ...)
has_failures(srs) ==
    \E i \in 1..Len(srs) : srs[i].failed > 0 \/ srs[i].timeout > 0 \/ srs[i].error > 0

\* A call of run_single_test returned r: sequentially the loop appends it at
\* once, in a worker it becomes the value of the future. The
\* sequential loop prints before the call (when the call ends in the step
\* that began it, that is printed here too) and after it.
Deliver(n, r) ==
    /\ call' = [call EXCEPT ![n] = "returned"]
    /\ ret' = [ret EXCEPT ![n] = r]
    /\ results' = IF Parallel(jobs) THEN results ELSE Append(results, r)
    /\ counts' = IF Parallel(jobs) THEN counts ELSE CountStatuses(counts, r)
    /\ stderr_out' = stderr_out
            \o (IF ~Parallel(jobs) /\ call[n] = "pending"
                THEN BeforeTestWrites(tests, results, IndexOf(tests, n)) ELSE <<>>)
            \o (IF ~Parallel(jobs) THEN AfterTestWrites(r) ELSE <<>>)

\* main settles the job count and calls run_suite: both strategies resolve
\* the suite, filter the names and, in parallel, submit one future per name.
Start ==
    /\ pc = "init"
    /\ LET r == ResolveSuite(suite_name)
       IN IF r.ok
          THEN LET ts == ApplyFilter(r.tests, test_filter)
               IN /\ pc' = "running"
                  /\ tests' = ts
                  /\ call' = [n \in SeqRange(ts) |-> "pending"]
                  /\ ret' = [n \in SeqRange(ts) |-> NoResult]
                  /\ proc' = [n \in SeqRange(ts) |-> "none"]
                  /\ worker' = [n \in SeqRange(ts) |-> <<>>]
                  /\ desc' = [n \in SeqRange(ts) |-> "none"]
                  /\ cmd' = [n \in SeqRange(ts) |-> <<>>]
                  /\ env' = [n \in SeqRange(ts) |-> <<>>]
                  /\ stderr_out' = stderr_out \o AutoDetectWrites(args_jobs, cpu_count)
                                      \o HeaderWrites(ts, SuiteJobs(args_jobs, cpu_count))
                  /\ UNCHANGED <<exit_code, reported>>
          ELSE /\ MainRaises(SuiteNotFound(suite_name))
               /\ stderr_out' = stderr_out \o AutoDetectWrites(args_jobs, cpu_count)
               /\ UNCHANGED <<tests, call, ret, proc, desc, worker, cmd, env>>
    /\ jobs' = SuiteJobs(args_jobs, cpu_count)
    /\ UNCHANGED <<env_vars, suite_name, test_filter, json_output, output_dir, verbose,
                   args_jobs, results, counts, collected, pool_broken, suite_result,
                   prior, resolved, resolving, suite_names, files, suite_results,
                   triage_vars>>

\* A call of run_single_test begins: sequentially the next name of the loop,
\* in parallel the next submitted name as soon as a worker is free. It ends
\* at once when the setup raises, when neither artifact exists and when the
\* process cannot be launched.
Launch(n) ==
    /\ pc = "running"
    /\ n \in TestSet
    /\ call[n] = "pending"
    /\ \A i \in 1..Len(tests) : tests[i] = n =>
            \A j \in 1..(i - 1) : call[tests[j]] # "pending"
    /\ \E w \in TakingWorkers(jobs) : worker' = [worker EXCEPT ![n] = Append(@, w)]
    /\ IF behaviour[n].fault = "setup"
       THEN /\ call' = [call EXCEPT ![n] = "raised"]
            /\ IF Parallel(jobs)
               THEN UNCHANGED <<pc, exit_code, reported, stderr_out>>
               ELSE /\ MainRaises(<<"setup failed">>)
                    /\ stderr_out' = stderr_out
                          \o BeforeTestWrites(tests, results, IndexOf(tests, n))
            /\ UNCHANGED <<ret, results, counts, proc, desc, cmd, env>>
       ELSE IF Protocol(n) = "none"
       THEN /\ Deliver(n, NeitherResult(n))
            /\ UNCHANGED <<pc, proc, desc, cmd, env, exit_code, reported>>
       ELSE IF behaviour[n].fault = "launch"
       THEN /\ Deliver(n, ExceptionResult(n, "Permission denied"))
            /\ cmd' = [cmd EXCEPT ![n] = Command(n)]
            /\ env' = [env EXCEPT ![n] = TestEnv]
            /\ UNCHANGED <<pc, proc, desc, exit_code, reported>>
       ELSE /\ call' = [call EXCEPT ![n] = "running"]
            /\ proc' = [proc EXCEPT ![n] = "running"]
            /\ desc' = [desc EXCEPT ![n] = IF behaviour[n].tree THEN "running" ELSE "none"]
            /\ cmd' = [cmd EXCEPT ![n] = Command(n)]
            /\ env' = [env EXCEPT ![n] = TestEnv]
            /\ stderr_out' = stderr_out
                  \o (IF Parallel(jobs) THEN <<>>
                      ELSE BeforeTestWrites(tests, results, IndexOf(tests, n)))
            /\ UNCHANGED <<pc, ret, results, counts, exit_code, reported>>
    /\ UNCHANGED <<env_vars, arg_vars, tests, collected, pool_broken, suite_result,
                   prior, resolved, resolving, suite_names, files, suite_results,
                   triage_vars>>

\* The process of a test ends within the timeout (the processes it started
\* ended before it), or was killed from outside: subprocess.run returns and
\* run_single_test classifies what it got.
Complete(n) ==
    /\ pc = "running"
    /\ n \in TestSet
    /\ call[n] = "running"
    /\ \/ proc[n] = "running" /\ behaviour[n].ends = "exit"
       \/ proc[n] = "killed"
    /\ LET b == behaviour[n]
       IN IF proc[n] = "killed"
          THEN Deliver(n, Classify(n, -9, <<>>, <<>>))
          ELSE Deliver(n, Classify(n, b.rc, read_text(b.stdout), read_text(b.stderr)))
    /\ proc' = [proc EXCEPT ![n] = IF proc[n] = "running" THEN "exited" ELSE proc[n]]
    /\ desc' = [desc EXCEPT ![n] = IF desc[n] = "running" THEN "exited" ELSE desc[n]]
    /\ UNCHANGED <<env_vars, arg_vars, pc, tests, worker, collected, pool_broken,
                   suite_result, prior, resolved, resolving, cmd, env, main_vars,
                   triage_vars>>

\* The process of a test is still running when the timeout expires:
\* subprocess.run kills it, waits for it and raises TimeoutExpired.
Timeout(n) ==
    /\ pc = "running"
    /\ n \in TestSet
    /\ call[n] = "running"
    /\ proc[n] = "running"
    /\ behaviour[n].ends = "hang"
    /\ proc' = [m \in DOMAIN proc |->
                    IF m \in KilledOnTimeout(n) /\ proc[m] = "running"
                    THEN "killed" ELSE proc[m]]
    /\ Deliver(n, TimeoutResult(n))
    /\ UNCHANGED <<env_vars, arg_vars, pc, tests, desc, worker, collected, pool_broken,
                   suite_result, prior, resolved, resolving, cmd, env, main_vars,
                   triage_vars>>

\* A worker process of the pool dies: the executor marks the pool broken and
\* every future that has not finished raises BrokenProcessPool.
WorkerDies ==
    /\ pc = "running"
    /\ Parallel(jobs)
    /\ ~pool_broken
    /\ \E n \in TestSet : call[n] \notin Finished
    /\ pool_broken' = TRUE
    /\ call' = [n \in DOMAIN call |-> IF call[n] \in Finished THEN call[n] ELSE "broken"]
    /\ UNCHANGED <<env_vars, arg_vars, pc, tests, ret, proc, desc, worker, results,
                   counts, collected, suite_result, prior, resolved, resolving, cmd,
                   env, main_vars, stderr_out, triage_vars>>

\* as_completed yields a finished future: its result is appended, or the
\* exception it holds is turned into an error result for its name.
Collect(n) ==
    /\ pc = "running"
    /\ Parallel(jobs)
    /\ n \in TestSet \ collected
    /\ call[n] \in Finished
    /\ IF call[n] = "returned"
       THEN /\ results' = Append(results, ret[n])
            /\ counts' = CountStatuses(CountCompleted(counts), ret[n])
            /\ collected' = collected \cup {n}
            /\ stderr_out' = stderr_out \o CompletedWrites(tests, results', ret[n])
            /\ UNCHANGED <<pc, exit_code, reported>>
       ELSE IF ExceptionCaught(call[n])
       THEN /\ results' = Append(results, CrashResult(n, FutureException(call[n])))
            /\ counts' = CountCrash(counts)
            /\ collected' = collected \cup {n}
            /\ UNCHANGED <<pc, exit_code, reported, stderr_out>>
       ELSE /\ MainRaises(<<FutureException(call[n])>>)
            /\ UNCHANGED <<results, counts, collected, stderr_out>>
    /\ UNCHANGED <<env_vars, arg_vars, tests, call, ret, proc, desc, worker,
                   pool_broken, suite_result, prior, resolved, resolving, cmd, env,
                   suite_names, files, suite_results, triage_vars>>

\* The loop is over: the parallel strategy sorts the results back into the
\* order of the names, both count the statuses and return the SuiteResult,
\* which main appends to suite_results.
Finish ==
    /\ pc = "running"
    /\ IF Parallel(jobs) THEN collected = TestSet ELSE Len(results) = Len(tests)
    /\ suite_result' =
          BuildSuiteResult(suite_name,
                           IF Parallel(jobs) THEN SortByTestOrder(results, tests)
                           ELSE results)
    /\ suite_results' = Append(suite_results, suite_result')
    /\ files' = WriteSuiteJson(files, suite_name, suite_result')
    /\ stderr_out' = stderr_out \o FinishWrites(results)
    /\ pc' = "returned"
    /\ UNCHANGED <<env_vars, arg_vars, tests, call, ret, proc, desc, worker, results,
                   counts, collected, pool_broken, prior, resolved, resolving, cmd, env,
                   suite_names, exit_code, reported, triage_vars>>

\* sys.exit(1 if has_failures else 0)
SuiteExitCode(srs) == IF has_failures(srs) THEN 1 ELSE 0

\* Every suite of the command has been run: main writes the file of a single
\* suite's --json, prints the summaries and exits.
Exit ==
    /\ pc = "returned"
    /\ exit_code = <<>>
    /\ exit_code' = <<SuiteExitCode(suite_results)>>
    /\ files' = WriteSingleJson(files, suite_results)
    /\ UNCHANGED <<env_vars, arg_vars, run_vars, resolved, resolving, cmd, env,
                   suite_names, suite_results, reported, stderr_out, triage_vars>>

\* What an invocation ended with.
RunOutcome == [ran |-> TRUE, parallel |-> Parallel(jobs), pc |-> pc,
               suite_result |-> suite_result, clean |-> ~pool_broken]

NoRun == [ran |-> FALSE, parallel |-> FALSE, pc |-> "init",
          suite_result |-> NoSuiteResult, clean |-> TRUE]

IdleRun ==
    /\ pc = "init"
    /\ tests = <<>>
    /\ call = <<>>
    /\ ret = <<>>
    /\ proc = <<>>
    /\ worker = <<>>
    /\ desc = <<>>
    /\ results = <<>>
    /\ counts = NoCounts
    /\ collected = {}
    /\ pool_broken = FALSE
    /\ suite_result = NoSuiteResult
    /\ cmd = <<>>
    /\ env = <<>>
    /\ suite_results = <<>>
    /\ exit_code = <<>>
    /\ reported = <<>>
    /\ stderr_out = <<>>

\* No triage is under way.
IdleTriage ==
    /\ json_doc = NoSuiteResult
    /\ num_lines = 0
    /\ timeout_tests = <<>>
    /\ failed_tests = <<>>
    /\ rendered = <<>>

\* stderr is a terminal, NO_COLOR is not set and -v is not given.
Interactive ==
    /\ isatty = TRUE
    /\ no_color = FALSE
    /\ verbose = FALSE

\* The command is given again, with the other strategy, on the same tests
\* directory and with the same suite and filter.
Reinvoke(j) ==
    /\ pc \in {"returned", "failed"}
    /\ exit_code # <<>>
    /\ ~prior.ran
    /\ Parallel(j) # Parallel(jobs)
    /\ prior' = RunOutcome
    /\ args_jobs' = j
    /\ jobs' = j
    /\ pc' = "init"
    /\ tests' = <<>>
    /\ call' = <<>>
    /\ ret' = <<>>
    /\ proc' = <<>>
    /\ worker' = <<>>
    /\ desc' = <<>>
    /\ results' = <<>>
    /\ counts' = NoCounts
    /\ collected' = {}
    /\ pool_broken' = FALSE
    /\ suite_result' = NoSuiteResult
    /\ cmd' = <<>>
    /\ env' = <<>>
    /\ suite_results' = <<>>
    /\ exit_code' = <<>>
    /\ reported' = <<>>
    /\ stderr_out' = <<>>
    /\ UNCHANGED <<env_vars, suite_name, test_filter, json_output, output_dir, verbose,
                   resolved, resolving, suite_names, files, triage_vars>>

\* ------------------------------------------------------- the specification

SchedPieces == {[k |-> "sh", n |-> N_y], [k |-> "sh", n |-> N_xt]}

AtomicText == <<[k |-> "text", n |-> <<>>]>>

\* The names whose process is run: the others' behaviour is never read.
BehavesOn(ns, B) ==
    \E b \in [ns -> B] :
        behaviour = [n \in Names |-> IF n \in ns THEN b[n] ELSE B_pass]

Init ==
    /\ \/ /\ suite_name = N_minimal
          /\ \E s \in SeqsUpTo(SchedPieces, MaxScriptLen) :
                run_scripts = (N_x :> AtomicText) @@ (N_minimal :> s)
       \/ /\ suite_name \in {N_all, N_y}
          /\ run_scripts = (N_x :> AtomicText)
    /\ dir_files \in {{RightFile(N_y)},
                       {TestsFile(N_x), TestsFile(N_y), TestsFile(N_xt), RightFile(N_y)}}
    /\ test_filter \in {<<>>, <<"x">>}
    /\ jobs \in 1..MaxJobs
    /\ args_jobs = jobs
    /\ cpu_count = 1
    /\ LET r == ResolveSuite(suite_name)
       IN BehavesOn(SeqRange(ApplyFilter(r.tests, test_filter)), SchedBehaviours)
    /\ suite_names = <<suite_name>>
    /\ json_output = NoArg
    /\ output_dir = NoArg
    /\ files = <<>>
    /\ IdleRun
    /\ IdleTriage
    /\ Interactive
    /\ prior = NoRun
    /\ resolved = <<>>
    /\ resolving = NotResolving

Next ==
    \/ Start
    \/ \E n \in Names : Launch(n)
    \/ \E n \in Names : Complete(n)
    \/ \E n \in Names : Timeout(n)
    \/ WorkerDies
    \/ \E n \in Names : Collect(n)
    \/ Finish
    \/ Exit
    \/ \E j \in 1..MaxJobs : Reinvoke(j)

Spec == Init /\ [][Next]_vars

\* ------------------------------------------- the resolver, on its own

\* The scripts of the other suites of the tests directory.
Bg_none == [n \in {} |-> AtomicText]
Bg_atomic == [n \in Names |-> AtomicText]
Bg_nested == [n \in {N_x, N_y} |-> <<[k |-> "sh", n |-> N_y], [k |-> "sh", n |-> N_xt]>>]

Backgrounds == {Bg_none, Bg_atomic, Bg_nested}

Without(f, n) == [m \in DOMAIN f \ {n} |-> f[m]]

\* A suite name is resolved as both strategies resolve it.
ResolveCall ==
    /\ Len(resolved) < 2
    /\ resolved' = Append(resolved, ResolveSuite(suite_name))
    /\ UNCHANGED <<env_vars, arg_vars, run_vars, resolving, cmd, env, main_vars,
                   stderr_out, triage_vars>>

ResolveInit ==
    /\ suite_name \in Names
    /\ \E bg \in Backgrounds :
          \/ run_scripts = Without(bg, suite_name)
          \/ \E s \in Scripts : run_scripts = (suite_name :> s) @@ bg
    /\ IF suite_name = N_all
       THEN \E S \in SUBSET {N_x, N_y, N_xt, N_minimal} :
                dir_files = {TestsFile(n) : n \in S} \cup {RightFile(N_y)}
       ELSE dir_files = {}
    /\ behaviour = [n \in Names |-> B_pass]
    /\ test_filter = <<>>
    /\ jobs = 1
    /\ args_jobs = jobs
    /\ cpu_count = 1
    /\ suite_names = <<suite_name>>
    /\ json_output = NoArg
    /\ output_dir = NoArg
    /\ files = <<>>
    /\ IdleRun
    /\ IdleTriage
    /\ Interactive
    /\ prior = NoRun
    /\ resolved = <<>>
    /\ resolving = NotResolving

ResolveNext == ResolveCall

SpecResolve == ResolveInit /\ [][ResolveNext]_vars

\* ------------------------------------ the resolver, statement by statement

\* get_suite_tests is entered: the script is looked for, opened and matched
\* against the pattern. Without a match the suite is its own only test.
ResolveOpen ==
    /\ resolving.pc = "idle"
    /\ suite_name # N_all
    /\ resolving' =
          IF ~RunScriptExists(suite_name) THEN Resolving("raised", <<>>, <<>>, 0)
          ELSE LET matches == run_matches(run_scripts[suite_name])
               IN IF matches # <<>> THEN Resolving("loop", matches, <<>>, 1)
                  ELSE Resolving("returned", <<>>, <<suite_name>>, 1)
    /\ UNCHANGED <<env_vars, arg_vars, run_vars, resolved, cmd, env, main_vars,
                   stderr_out, triage_vars>>

\* The suite all is not parsed: list_tests globs the tests directory.
ResolveAll ==
    /\ resolving.pc = "idle"
    /\ suite_name = N_all
    /\ resolving' = Resolving("returned", <<>>, list_tests, 0)
    /\ UNCHANGED <<env_vars, arg_vars, run_vars, resolved, cmd, env, main_vars,
                   stderr_out, triage_vars>>

\* One turn of the loop over the matches.
ResolveMatch ==
    /\ resolving.pc = "loop"
    /\ resolving.matches # <<>>
    /\ LET test_name == Head(resolving.matches).n
       IN resolving' =
             [resolving EXCEPT
                 !.tests = IF KeepsMatch(test_name, suite_name, @)
                           THEN Append(@, test_name) ELSE @,
                 !.matches = RestOfMatches(@)]
    /\ UNCHANGED <<env_vars, arg_vars, run_vars, resolved, cmd, env, main_vars,
                   stderr_out, triage_vars>>

\* The loop is over: return tests.
ResolveReturn ==
    /\ resolving.pc = "loop"
    /\ resolving.matches = <<>>
    /\ resolving' = [resolving EXCEPT !.pc = "returned"]
    /\ resolved' = Append(resolved, [ok |-> TRUE, tests |-> resolving.tests])
    /\ UNCHANGED <<env_vars, arg_vars, run_vars, cmd, env, main_vars, stderr_out,
                   triage_vars>>

\* Suites that refer to themselves and to each other.
Bg_cycle == [n \in {N_x, N_y} |-> <<[k |-> "sh", n |-> N_x], [k |-> "sh", n |-> N_y]>>]

StepsInit ==
    /\ suite_name \in Names
    /\ \E bg \in Backgrounds \cup {Bg_cycle} :
          \/ run_scripts = Without(bg, suite_name)
          \/ run_scripts = bg
          \/ \E s \in Scripts : run_scripts = (suite_name :> s) @@ bg
    /\ dir_files \in {{}, {TestsFile(N_x), TestsFile(N_y)}}
    /\ behaviour = [n \in Names |-> B_pass]
    /\ test_filter = <<>>
    /\ jobs = 1
    /\ args_jobs = jobs
    /\ cpu_count = 1
    /\ suite_names = <<suite_name>>
    /\ json_output = NoArg
    /\ output_dir = NoArg
    /\ files = <<>>
    /\ IdleRun
    /\ IdleTriage
    /\ Interactive
    /\ prior = NoRun
    /\ resolved = <<>>
    /\ resolving = NotResolving

StepsNext == ResolveOpen \/ ResolveAll \/ ResolveMatch \/ ResolveReturn

\* The resolver runs in main's thread, which nothing holds up.
SpecResolveSteps == StepsInit /\ [][StepsNext]_vars /\ WF_vars(StepsNext)

\* ------------------------------------------- the test command, on its own

\* The same text as ExpectedBytes, with the line ending "\r\n".
CrlfBytes == <<"ok", "\r", "\n">>
ErrBytes == <<"err", "\n">>

OutBytes == {<<>>, ExpectedBytes, CrlfBytes, WrongBytes}
ExitCodes == {0, 1, 2}

\* What the process writes to $BASH_TSTOUT, when it does.
Scratches == {[written |-> FALSE, bytes |-> <<>>]} \cup
             {[written |-> TRUE, bytes |-> o] : o \in OutBytes}

B_read_fault == Behaviour("read", "exit", 0, ExpectedBytes, <<>>, FALSE, <<>>, FALSE)
B_diff_fault == Behaviour("diff", "exit", 0, WrongBytes, <<>>, FALSE, <<>>, FALSE)

TestBehaviours ==
    {Behaviour("none", "exit", rc, out, err, sc.written, sc.bytes, FALSE) :
        rc \in ExitCodes, out \in OutBytes, err \in {<<>>, ErrBytes}, sc \in Scratches}
    \cup {B_hang, B_setup_fault, B_launch_fault, B_read_fault, B_diff_fault}

\* main, command "test": result = runner.run_single_test(args.test_name) is
\* about to be called, on a tests directory with any of the three artifacts
\* of the name and of the name without -tests.
TestInit ==
    /\ \E n \in {N_x, N_xt} :
          /\ tests = <<n>>
          /\ call = (n :> "pending")
          /\ ret = (n :> NoResult)
          /\ proc = (n :> "none")
          /\ worker = (n :> <<>>)
          /\ desc = (n :> "none")
          /\ cmd = (n :> <<>>)
          /\ env = (n :> <<>>)
          /\ dir_files \in SUBSET {TestsFile(n), RightFile(n)}
          /\ BehavesOn({n}, TestBehaviours)
    /\ \E S \in SUBSET {N_x, N_xt} : run_scripts = [m \in S |-> AtomicText]
    /\ pc = "running"
    /\ suite_name = <<>>
    /\ suite_names = <<>>
    /\ json_output = NoArg
    /\ output_dir = NoArg
    /\ files = <<>>
    /\ test_filter = <<>>
    /\ jobs = 1
    /\ args_jobs = jobs
    /\ cpu_count = 1
    /\ results = <<>>
    /\ counts = NoCounts
    /\ collected = {}
    /\ pool_broken = FALSE
    /\ suite_result = NoSuiteResult
    /\ suite_results = <<>>
    /\ exit_code = <<>>
    /\ reported = <<>>
    /\ stderr_out = <<>>
    /\ IdleTriage
    /\ Interactive
    /\ prior = NoRun
    /\ resolved = <<>>
    /\ resolving = NotResolving

\* sys.exit(0 if result.status == "pass" else 1)
TestExit ==
    /\ pc = "running"
    /\ Len(results) = 1
    /\ exit_code' = <<IF results[1].status = "pass" THEN 0 ELSE 1>>
    /\ pc' = "returned"
    /\ UNCHANGED <<env_vars, arg_vars, tests, call, ret, proc, desc, worker, results,
                   counts, collected, pool_broken, suite_result, prior, resolved,
                   resolving, cmd, env, suite_names, files, suite_results, reported,
                   stderr_out, triage_vars>>

TestNext ==
    \/ \E n \in Names : Launch(n)
    \/ \E n \in Names : Complete(n)
    \/ \E n \in Names : Timeout(n)
    \/ TestExit

SpecTest == TestInit /\ [][TestNext]_vars

\* --------------------------------------- the suite command, suite by suite

\* What one call of run_single_test inside run_suite ends with: a result of
\* one of the four statuses, or the exception of its setup.
TestOutcomes == Statuses \cup {"raised"}

\* The results run_suite holds when every test has ended with the outcome o
\* gives it (no exception left the strategy).
OutcomeResults(ts, o) ==
    [i \in 1..Len(ts) |->
        IF o[ts[i]] = "raised" THEN CrashResult(ts[i], "setup failed")
        ELSE TestResult(ts[i], o[ts[i]], <<>>, <<>>)]

\* One turn of `for suite_name in args.suite_names`: run_suite resolves the
\* suite, runs its tests and returns the SuiteResult, which main appends; an
\* exception (suite not found, or a setup that raises in the sequential
\* strategy) goes to main's handler. The calls of run_single_test and what
\* run_suite writes to stderr are followed step by step in Spec and
\* SpecReport; here only what main keeps of a run is.
RunSuite ==
    /\ pc = "init"
    /\ Len(suite_results) < Len(suite_names)
    /\ jobs' = SuiteJobs(args_jobs, cpu_count)
    /\ LET s == suite_names[Len(suite_results) + 1]
           r == ResolveSuite(s)
           ts == ApplyFilter(r.tests, test_filter)
       IN /\ suite_name' = s
          /\ IF ~r.ok
             THEN /\ MainRaises(SuiteNotFound(s))
                  /\ UNCHANGED <<suite_result, suite_results, files>>
             ELSE \E o \in [SeqRange(ts) -> TestOutcomes] :
                    IF ~Parallel(jobs') /\ \E n \in SeqRange(ts) : o[n] = "raised"
                    THEN /\ MainRaises(<<"setup failed">>)
                         /\ UNCHANGED <<suite_result, suite_results, files>>
                    ELSE /\ suite_result' = BuildSuiteResult(s, OutcomeResults(ts, o))
                         /\ suite_results' = Append(suite_results, suite_result')
                         /\ files' = WriteSuiteJson(files, s, suite_result')
                         /\ pc' = IF Len(suite_results') = Len(suite_names)
                                   THEN "returned" ELSE "init"
                         /\ UNCHANGED <<exit_code, reported>>
    /\ UNCHANGED <<env_vars, test_filter, json_output, output_dir, args_jobs, verbose,
                   tests, call, ret, proc, desc, worker, results, counts, collected,
                   pool_broken, prior, resolved, resolving, cmd, env, suite_names,
                   stderr_out, triage_vars>>

MainSuites == {N_x, N_y, N_all}

MainInit ==
    /\ \E k \in 1..MaxSuites : suite_names \in [1..k -> MainSuites]
    /\ json_output \in {NoArg, <<"out">>}
    /\ output_dir \in {NoArg, <<"dir">>}
    /\ files = <<>>
    /\ run_scripts = (N_x :> AtomicText)
    /\ dir_files \in {{}, {TestsFile(N_x), TestsFile(N_y)}}
    /\ behaviour = [n \in Names |-> B_pass]
    /\ suite_name = <<>>
    /\ test_filter \in {<<>>, <<"y">>}
    /\ jobs \in 1..MaxJobs
    /\ args_jobs = jobs
    /\ cpu_count = 1
    /\ IdleRun
    /\ IdleTriage
    /\ Interactive
    /\ prior = NoRun
    /\ resolved = <<>>
    /\ resolving = NotResolving

MainNext == RunSuite \/ Exit

SpecMain == MainInit /\ [][MainNext]_vars

\* ---------------------------------------------------- the triage command

\* In the texts triage takes apart every character is a piece of its own.
\* str.startswith
StartsWith(line, prefix) ==
    Len(line) >= Len(prefix) /\ SubSeq(line, 1, Len(prefix)) = prefix

\* error.split('\n')
RECURSIVE Split(_)
Split(text) ==
    LET at == {i \in 1..Len(text) : text[i] = "\n"}
    IN IF at = {} THEN <<text>>
       ELSE LET i == CHOOSE j \in at : \A k \in at : j <= k
            IN <<SubSeq(text, 1, i - 1)>> \o Split(SubSeq(text, i + 1, Len(text)))

\* The lines the loop of triage skips.
Skipped(line) ==
    \/ StartsWith(line, <<"-", "-", "-">>)
    \/ StartsWith(line, <<"+", "+", "+">>)
    \/ StartsWith(line, <<"@", "@">>)

relevant_lines(error) == SelectSeq(Split(error), LAMBDA line : ~Skipped(line))

\* a[:k], for k >= 0
Take(a, k) == SubSeq(a, 1, IF k < Len(a) THEN k ELSE Len(a))

shown_lines(error, k) == Take(relevant_lines(error), k)

\* Lines of test output: two plain ones, one that begins with two dashes and
\* one that begins with two plus signs.
L_a == <<"a">>
L_b == <<"b">>
L_dashes == <<"-", "-", " ", "c">>
L_pluses == <<"+", "+", "i">>

ExpectedTexts == {<<L_a>>, <<L_dashes>>, <<L_a, L_dashes>>}
ActualTexts == {<<L_b>>, <<L_pluses>>}

\* The two header lines and the hunk marker of `diff -u <name>.right -`.
DiffHeader == << <<"-", "-", "-", " ", "r">>, <<"+", "+", "+", " ", "-">>,
                <<"@", "@", " ", "-", "1", " ", "+", "1", " ", "@", "@">> >>

RECURSIVE JoinLines(_)
JoinLines(lines) ==
    IF lines = <<>> THEN <<>>
    ELSE Head(lines) \o <<"\n">> \o JoinLines(Tail(lines))

\* diff_result.stdout for an expected and an actual text without a common
\* line: the header, the hunk marker, the expected lines with "-" before
\* them, the actual lines with "+" before them.
UnifiedDiff(expected, actual) ==
    JoinLines(DiffHeader
              \o [i \in 1..Len(expected) |-> <<"-">> \o expected[i]]
              \o [i \in 1..Len(actual) |-> <<"+">> \o actual[i]])

\* The entries a persisted SuiteResult can hold for a name.
DocEntries(n) ==
    {TestResult(n, "pass", <<>>, <<>>),
     TestResult(n, "error", <<>>, <<"E">>),
     TestResult(n, "timeout", <<>>, <<"T">>),
     TestResult(n, "fail", <<>>, <<>>)}
    \cup {TestResult(n, "fail", <<>>, UnifiedDiff(e, a)) :
            e \in ExpectedTexts, a \in ActualTexts}

\* json.load of a file the suite command wrote.
Documents ==
    {BuildSuiteResult(N_minimal, <<e>>) : e \in DocEntries(N_x)}
    \cup {BuildSuiteResult(N_minimal, <<e, f>>) :
            e \in DocEntries(N_x), f \in DocEntries(N_y)}

\* failed_tests and timeout_tests are taken from the document; without any
\* the command says so and exits with 0.
TriageLoad ==
    /\ pc = "init"
    /\ failed_tests' = SelectSeq(json_doc.tests, LAMBDA t : t.status = "fail")
    /\ timeout_tests' = SelectSeq(json_doc.tests, LAMBDA t : t.status = "timeout")
    /\ IF failed_tests' = <<>> /\ timeout_tests' = <<>>
       THEN pc' = "returned" /\ exit_code' = <<0>>
       ELSE pc' = "triage" /\ exit_code' = exit_code
    /\ UNCHANGED <<env_vars, arg_vars, tests, call, ret, proc, desc, worker, results,
                   counts, collected, pool_broken, suite_result, prior, resolved,
                   resolving, cmd, env, suite_names, files, suite_results, reported,
                   stderr_out, json_doc, num_lines, rendered>>

\* for test in timeout_tests: the name and the error message.
TriageTimeout ==
    /\ pc = "triage"
    /\ timeout_tests # <<>>
    /\ LET test == Head(timeout_tests)
       IN rendered' = Append(rendered,
              [name |-> test.name, status |-> test.status, message |-> test.error,
               lines |-> <<>>, more |-> 0])
    /\ timeout_tests' = Tail(timeout_tests)
    /\ UNCHANGED <<env_vars, arg_vars, run_vars, resolved, resolving, cmd, env,
                   main_vars, stderr_out, json_doc, num_lines, failed_tests>>

\* for test in failed_tests, after the timeouts: the name, the first
\* num_lines relevant lines of the error and the count of those left out.
TriageFailed ==
    /\ pc = "triage"
    /\ timeout_tests = <<>>
    /\ failed_tests # <<>>
    /\ LET test == Head(failed_tests)
           relevant == relevant_lines(test.error)
       IN rendered' = Append(rendered,
              IF test.error # <<>>
              THEN [name |-> test.name, status |-> test.status, message |-> <<>>,
                    lines |-> shown_lines(test.error, num_lines),
                    more |-> IF Len(relevant) > num_lines
                             THEN Len(relevant) - num_lines ELSE 0]
              ELSE [name |-> test.name, status |-> test.status,
                    message |-> <<"(no diff output)">>, lines |-> <<>>, more |-> 0])
    /\ failed_tests' = Tail(failed_tests)
    /\ UNCHANGED <<env_vars, arg_vars, run_vars, resolved, resolving, cmd, env,
                   main_vars, stderr_out, json_doc, num_lines, timeout_tests>>

\* The totals are printed and main ends.
TriageEnd ==
    /\ pc = "triage"
    /\ timeout_tests = <<>>
    /\ failed_tests = <<>>
    /\ pc' = "returned"
    /\ exit_code' = <<0>>
    /\ UNCHANGED <<env_vars, arg_vars, tests, call, ret, proc, desc, worker, results,
                   counts, collected, pool_broken, suite_result, prior, resolved,
                   resolving, cmd, env, suite_names, files, suite_results, reported,
                   stderr_out, triage_vars>>

TriageInit ==
    /\ json_doc \in Documents
    /\ num_lines \in 0..MaxNumLines
    /\ timeout_tests = <<>>
    /\ failed_tests = <<>>
    /\ rendered = <<>>
    /\ run_scripts = <<>>
    /\ dir_files = {}
    /\ behaviour = [n \in Names |-> B_pass]
    /\ suite_name = <<>>
    /\ suite_names = <<>>
    /\ json_output = NoArg
    /\ output_dir = NoArg
    /\ files = <<>>
    /\ test_filter = <<>>
    /\ jobs = 1
    /\ args_jobs = jobs
    /\ cpu_count = 1
    /\ IdleRun
    /\ Interactive
    /\ prior = NoRun
    /\ resolved = <<>>
    /\ resolving = NotResolving

TriageNext == TriageLoad \/ TriageTimeout \/ TriageFailed \/ TriageEnd

SpecTriage == TriageInit /\ [][TriageNext]_vars

\* ------------------------------------- a suite run, as its progress shows

ReportBehaviours == {B_pass, B_fail, B_hang}

\* The suite minimal of two tests, with stderr a terminal or not, NO_COLOR
\* set or not, and -v given or not.
ReportInit ==
    /\ suite_name = N_minimal
    /\ suite_names = <<N_minimal>>
    /\ json_output = NoArg
    /\ output_dir = NoArg
    /\ files = <<>>
    /\ run_scripts = (N_x :> AtomicText) @@
                     (N_minimal :> <<[k |-> "sh", n |-> N_y], [k |-> "sh", n |-> N_xt]>>)
    /\ dir_files = {TestsFile(N_y), RightFile(N_y)}
    /\ test_filter = <<>>
    /\ jobs \in 0..MaxJobs
    /\ args_jobs = jobs
    /\ cpu_count \in 1..MaxCpus
    /\ isatty \in BOOLEAN
    /\ no_color \in BOOLEAN
    /\ verbose \in BOOLEAN
    /\ BehavesOn({N_y, N_xt}, ReportBehaviours)
    /\ IdleRun
    /\ IdleTriage
    /\ prior = NoRun
    /\ resolved = <<>>
    /\ resolving = NotResolving

ReportNext ==
    \/ Start
    \/ \E n \in Names : Launch(n)
    \/ \E n \in Names : Complete(n)
    \/ \E n \in Names : Timeout(n)
    \/ \E n \in Names : Collect(n)
    \/ Finish
    \/ Exit

SpecReport == ReportInit /\ [][ReportNext]_vars

\* ------------------------------------------- a suite run, scheduled fairly

CompleteBehaviours == {B_pass, B_hang_tree, B_setup_fault}

\* The suite minimal of three tests, more than there are workers.
CompleteInit ==
    /\ suite_name = N_minimal
    /\ suite_names = <<N_minimal>>
    /\ json_output = NoArg
    /\ output_dir = NoArg
    /\ files = <<>>
    /\ run_scripts = (N_x :> AtomicText) @@
                     (N_minimal :> <<[k |-> "sh", n |-> N_y], [k |-> "sh", n |-> N_xt],
                                     [k |-> "sh", n |-> N_x]>>)
    /\ dir_files = {TestsFile(N_y), RightFile(N_y)}
    /\ test_filter = <<>>
    /\ jobs \in 1..MaxJobs
    /\ args_jobs = jobs
    /\ cpu_count = 1
    /\ BehavesOn({N_y, N_xt, N_x}, CompleteBehaviours)
    /\ IdleRun
    /\ IdleTriage
    /\ Interactive
    /\ prior = NoRun
    /\ resolved = <<>>
    /\ resolving = NotResolving

\* The steps of the runner and of the test processes.
RunSteps ==
    \/ Start
    \/ \E n \in Names : Launch(n)
    \/ \E n \in Names : Complete(n)
    \/ \E n \in Names : Timeout(n)
    \/ \E n \in Names : Collect(n)
    \/ Finish
    \/ Exit

CompleteNext == RunSteps \/ WorkerDies

\* main's thread and the workers are scheduled, a process that ends by
\* itself does end, and the timeout of subprocess.run expires. That a worker
\* process dies is not something that has to happen.
SpecComplete == CompleteInit /\ [][CompleteNext]_vars /\ WF_vars(RunSteps)

\* ------------------------------------------------------------------ claims

WellFormed(sr) ==
    /\ sr.total = Len(sr.tests)
    /\ sr.total = sr.passed + sr.failed + sr.timeout + sr.error
    /\ \A i \in 1..Len(sr.tests) : sr.tests[i].status \in Statuses

\* C1: every SuiteResult run_suite returns, by either strategy, has
\* total == len(tests) == passed + failed + timeout + error, and every status
\* in it is one of pass, fail, timeout, error.
C1_SuiteResultCounts ==
    /\ pc = "returned" => WellFormed(suite_result)
    /\ (prior.ran /\ prior.pc = "returned") => WellFormed(prior.suite_result)

\* A parallel run with a filter returned a result that holds a timeout and
\* the error recorded for a future that raised.
C1_Witness ==
    /\ pc = "returned"
    /\ Parallel(jobs)
    /\ test_filter # <<>>
    /\ suite_result.timeout >= 1
    /\ \E n \in TestSet : call[n] # "returned"
    /\ suite_result.total >= 2

\* C2: the parallel strategy returns the results in the order of the input
\* names, whatever the order in which the futures completed.
C2_ParallelOrder ==
    (pc = "returned" /\ Parallel(jobs)) =>
        /\ Len(suite_result.tests) = Len(tests)
        /\ \A i \in 1..Len(tests) : suite_result.tests[i].name = tests[i]

\* A parallel run returned whose futures were collected in another order
\* than the names were submitted in.
C2_Witness ==
    /\ pc = "returned"
    /\ Parallel(jobs)
    /\ Len(results) >= 2
    /\ results[1].name = tests[Len(tests)]
    /\ results # suite_result.tests

SameNamesAndStatuses(a, b) ==
    /\ Len(a.tests) = Len(b.tests)
    /\ \A i \in 1..Len(a.tests) :
          /\ a.tests[i].name = b.tests[i].name
          /\ a.tests[i].status = b.tests[i].status

\* C3: the two strategies, run over the same resolved names with no worker
\* process dying, both return a SuiteResult, with the same names in the same
\* order and the same statuses.
C3_StrategiesAgree ==
    (/\ pc \in {"returned", "failed"}
     /\ prior.ran
     /\ prior.clean
     /\ ~pool_broken
     /\ ResolveSuite(suite_name).ok) =>
        /\ pc = "returned"
        /\ prior.pc = "returned"
        /\ SameNamesAndStatuses(suite_result, prior.suite_result)

\* C4: no call of run_single_test lets an exception out.
C4_NoExceptionEscapes ==
    \A n \in DOMAIN call : call[n] # "raised"

\* C5: when run_single_test returns a timeout, its error names the bound and
\* neither the child process nor a process the child started is running.
C5_NothingRunsAfterTimeout ==
    \A n \in DOMAIN call :
        (call[n] = "returned" /\ ret[n].status = "timeout") =>
            /\ ret[n].error = <<"Test exceeded timeout of ", "30", "s">>
            /\ proc[n] # "running"
            /\ desc[n] # "running"

\* The status run_single_test gives a name when it is the only test run by a
\* worker of the pool.
SoloStatus(n) ==
    LET b == behaviour[n]
    IN IF b.fault \in {"setup", "launch"} \/ Protocol(n) = "none" THEN "error"
       ELSE IF b.ends = "hang" THEN "timeout"
       ELSE Classify(n, b.rc, read_text(b.stdout), read_text(b.stderr)).status

TimedOut(n) == call[n] = "returned" /\ ret[n].status = "timeout"

\* C6: in a parallel run in which a test timed out (and no worker process
\* died), only the processes of tests that timed out were killed, every
\* other test that finished has the status it gets on its own, and the run
\* returns that status for each of them.
C6_SiblingsUnaffectedByTimeout ==
    (/\ pc \in {"running", "returned"}
     /\ Parallel(jobs)
     /\ ~pool_broken
     /\ \E t \in TestSet : TimedOut(t)) =>
        \A n \in TestSet :
            /\ proc[n] = "killed" => TimedOut(n)
            /\ call[n] = "returned" => ret[n].status = SoloStatus(n)
            /\ pc = "returned" =>
                   \E i \in 1..Len(suite_result.tests) :
                       /\ suite_result.tests[i].name = n
                       /\ suite_result.tests[i].status = SoloStatus(n)

\* A test has timed out while a sibling is running and another is queued.
C6_Witness ==
    /\ pc = "running"
    /\ Parallel(jobs)
    /\ ~pool_broken
    /\ \E t, m, q \in TestSet :
          /\ TimedOut(t)
          /\ call[m] = "running" /\ behaviour[m].ends = "exit"
          /\ call[q] = "pending"

\* C7: in a parallel run an exception held by a future does not abort the
\* run: it is recorded once, as an error under that future's name, and the
\* other futures' results are collected as they were returned.
C7_CrashRecorded ==
    Parallel(jobs) =>
        /\ pc = "failed" => ~ResolveSuite(suite_name).ok
        /\ pc \in {"running", "returned"} =>
              \A n \in collected :
                  \E i \in 1..Len(results) :
                      /\ results[i].name = n
                      /\ \A j \in 1..Len(results) : results[j].name = n => j = i
                      /\ IF call[n] = "returned" THEN results[i] = ret[n]
                         ELSE /\ results[i].status = "error"
                              /\ results[i].error = <<FutureException(call[n])>>
        /\ pc = "returned" =>
              /\ collected = TestSet
              /\ Len(suite_result.tests) = Len(tests)

\* A parallel run returned with the error of a future that raised and the
\* pass of another test, collected after it.
C7_Witness ==
    /\ pc = "returned"
    /\ Parallel(jobs)
    /\ Len(results) >= 2
    /\ call[results[1].name] = "raised"
    /\ results[2].status = "pass"
    /\ suite_result.error = 1
    /\ suite_result.passed = 1

\* C8: the list resolved for a composite suite holds no name of a composite
\* suite.
C8_OnlyAtomicNames ==
    \A k \in 1..Len(resolved) :
        (IsComposite(suite_name) /\ suite_name # N_all /\ resolved[k].ok) =>
            \A i \in 1..Len(resolved[k].tests) : ~IsComposite(resolved[k].tests[i])

\* The places of a script text the pattern matches.
RefAt(content) == {i \in 1..Len(content) : content[i].k \in {"sh", "case"}}

FirstAt(content, n) ==
    CHOOSE i \in RefAt(content) :
        /\ content[i].n = n
        /\ \A j \in RefAt(content) : content[j].n = n => i <= j

\* C9: for a composite suite the list is the referenced names other than the
\* suite itself, all and minimal, each once, in the order of their first
\* occurrence in the text; resolving twice gives the same list; a script
\* that runs run-x and then run-y resolves to [x, y].
C9_CompositeList ==
    (suite_name # N_all /\ RunScriptExists(suite_name)
        /\ RefAt(run_scripts[suite_name]) # {}) =>
        LET content == run_scripts[suite_name]
        IN /\ \A k \in 1..Len(resolved) :
                 LET ts == resolved[k].tests
                 IN /\ resolved[k].ok
                    /\ SeqRange(ts) = {content[i].n : i \in RefAt(content)}
                                          \ {suite_name, N_all, N_minimal}
                    /\ \A i, j \in 1..Len(ts) :
                          i < j => /\ ts[i] # ts[j]
                                   /\ FirstAt(content, ts[i]) < FirstAt(content, ts[j])
                    /\ (content = <<[k |-> "sh", n |-> N_x], [k |-> "sh", n |-> N_y]>>
                           /\ suite_name \notin {N_x, N_y})
                          => ts = <<N_x, N_y>>
           /\ Len(resolved) = 2 => resolved[1] = resolved[2]

\* The suite x, whose script runs run-y and names run-x-tests in a case
\* pattern, was resolved twice, to [y, x-tests].
C9_Witness ==
    /\ suite_name = N_x
    /\ RunScriptExists(N_x)
    /\ run_scripts[N_x] = <<[k |-> "sh", n |-> N_y], [k |-> "case", n |-> N_xt]>>
    /\ Len(resolved) = 2
    /\ resolved[2].tests = <<N_y, N_xt>>

\* C10: for the suite all the list is the names that have a .tests file, in
\* str order, each once, whether or not run-all exists and whatever it says.
C10_AllIsListTests ==
    suite_name = N_all =>
        \A k \in 1..Len(resolved) :
            LET ts == resolved[k].tests
            IN /\ resolved[k].ok
               /\ SeqRange(ts) = {n \in Names : TestsFileExists(n)}
               /\ \A i \in 1..(Len(ts) - 1) : StrLess(ts[i], ts[i + 1])

\* all was resolved, with no run-all script, to the four names that have a
\* .tests file, in str order.
C10_Witness ==
    /\ suite_name = N_all
    /\ ~RunScriptExists(N_all)
    /\ Len(resolved) >= 1
    /\ resolved[1].tests = <<N_minimal, N_x, N_xt, N_y>>

\* C11: a suite other than "all" whose run-<name> script is absent is not
\* run at all: the resolution raises "Suite not found" before any call of
\* run_single_test, the command prints the error and exits with a nonzero
\* code.
C11_SuiteNotFound ==
    (pc # "init" /\ suite_name # N_all /\ ~RunScriptExists(suite_name)) =>
        /\ pc = "failed"
        /\ tests = <<>> /\ call = <<>> /\ cmd = <<>> /\ proc = <<>>
        /\ results = <<>> /\ suite_results = <<>>
        /\ reported = <<"Error: ", "Suite not found: ">> \o suite_name
        /\ exit_code # <<>> /\ exit_code[1] # 0

\* The suite y has no run-y although y.tests exists: the command failed.
C11_Witness ==
    /\ pc = "failed"
    /\ suite_name = N_y
    /\ ~RunScriptExists(N_y)
    /\ TestsFileExists(N_y)
    /\ exit_code = <<1>>
    /\ reported # <<>>

\* The bytes the process of a test left as its output: the file it wrote at
\* $BASH_TSTOUT, or else what it wrote to its pipes.
ActualBytes(n) ==
    IF behaviour[n].scratch_written THEN behaviour[n].scratch
    ELSE behaviour[n].stdout \o behaviour[n].stderr

\* C12: under the golden-file protocol with <name>.right present, a test
\* passes only if the bytes of its output are exactly the bytes of
\* <name>.right; a difference in one character, a line ending included,
\* gives fail.
C12_GoldenByteExact ==
    \A n \in DOMAIN ret :
        ( /\ call[n] = "returned"
          /\ proc[n] = "exited"
          /\ Protocol(n) = "tests_file"
          /\ RightFileExists(n)
          /\ behaviour[n].fault = "none" ) =>
            /\ ret[n].status = "pass" => ActualBytes(n) = ExpectedBytes
            /\ ActualBytes(n) # ExpectedBytes => ret[n].status = "fail"

\* C13: a call of run_single_test for a name with neither run-<name> nor
\* <name>.tests returns a result of status error with a message, and runs no
\* command.
C13_NeitherIsError ==
    \A n \in DOMAIN call :
        (call[n] # "pending" /\ ~RunScriptExists(n) /\ ~TestsFileExists(n)) =>
            /\ call[n] = "returned"
            /\ ret[n].status = "error"
            /\ ret[n].error # <<>>
            /\ cmd[n] = <<>>
            /\ proc[n] = "none"

\* The path of run_single_test that produced the result of a finished call.
ResultPath(n) ==
    IF Protocol(n) = "suite_script" THEN "self_diffing"
    ELSE IF RightFileExists(n) THEN "golden"
    ELSE "fallback"

\* C14: a TestResult of status pass has an empty error field, whether it
\* comes from a run-<name> script that exited 0, from an output equal to
\* <name>.right, or from exit code 0 without a <name>.right.
C14_PassHasNoError ==
    /\ \A n \in DOMAIN ret :
           (call[n] = "returned" /\ ret[n].status = "pass") => ret[n].error = <<>>
    /\ \A i \in 1..Len(results) :
           results[i].status = "pass" => results[i].error = <<>>

\* A test passed by exit code 0 although its process wrote to stderr.
C14_Witness ==
    \E n \in DOMAIN ret :
        /\ call[n] = "returned"
        /\ ret[n].status = "pass"
        /\ ResultPath(n) = "fallback"
        /\ behaviour[n].stderr # <<>>
        /\ results = <<ret[n]>>

\* A test of a suite that was run ended with fail, timeout or error.
SomeTestFailed ==
    \E i \in 1..Len(suite_results) :
        \E j \in 1..Len(suite_results[i].tests) :
            suite_results[i].tests[j].status \in {"fail", "timeout", "error"}

C16_FailOrTimeoutNeverAborts ==
    /\ pc = "returned" =>
          /\ Len(suite_result.tests) = Len(tests)
          /\ \A n \in TestSet :
                Cardinality({i \in 1..Len(suite_result.tests) :
                                suite_result.tests[i].name = n}) = 1
    /\ pc = "failed" =>
          \/ tests = <<>> /\ reported = <<"Error: ">> \o SuiteNotFound(suite_name)
          \/ \E n \in TestSet : call[n] = "raised"
    /\ \A n \in DOMAIN ret :
          ret[n].status \in {"fail", "timeout"} =>
              \/ pc \in {"running", "returned"}
              \/ \E m \in TestSet : call[m] = "raised"

\* A sequential run of two tests returned after its first test timed out
\* and its second failed.
C16_Witness ==
    /\ pc = "returned"
    /\ ~Parallel(jobs)
    /\ Len(tests) = 2
    /\ Len(suite_result.tests) = 2
    /\ suite_result.tests[1].status = "timeout"
    /\ suite_result.tests[2].status = "fail"

\* The entry of the document triage was given that has the name n.
DocEntry(n) ==
    LET i == CHOOSE j \in 1..Len(json_doc.tests) : json_doc.tests[j].name = n
    IN json_doc.tests[i]

\* The lines of a unified diff after its two header lines and its hunk
\* marker.
ContentLines(error) == SubSeq(Split(error), Len(DiffHeader) + 1, Len(Split(error)))

\* C17: triage renders only the entries of status fail or timeout, and for
\* each of them at most num_lines diff lines, none of which is one of the
\* header lines or the hunk marker of the diff, and leaves out no line of
\* the diff that is not one of these: the lines shown are the first
\* num_lines content lines of the diff.
C17_TriageShowsContent ==
    /\ \A i \in 1..Len(rendered) :
          LET e == rendered[i]
          IN /\ e.status \in {"fail", "timeout"}
             /\ DocEntry(e.name).status = e.status
             /\ Len(e.lines) <= num_lines
             /\ \A k \in 1..Len(e.lines) : e.lines[k] \notin SeqRange(DiffHeader)
             /\ (e.status = "fail" /\ DocEntry(e.name).error # <<>>) =>
                    e.lines = Take(ContentLines(DocEntry(e.name).error), num_lines)
    /\ pc = "returned" =>
          {rendered[i].name : i \in 1..Len(rendered)} =
          {json_doc.tests[j].name : j \in {k \in 1..Len(json_doc.tests) :
                json_doc.tests[k].status \in {"fail", "timeout"}}}

\* C18: when stderr is not a terminal, what a suite run writes to it holds
\* no escape sequence and no carriage return, and every write is a line
\* ended by "\n".
C18_PlainLinesWhenNotATty ==
    ~isatty =>
        \A i \in 1..Len(stderr_out) :
            LET w == stderr_out[i]
            IN /\ \A k \in 1..Len(w) : w[k] \notin EscapeSequences /\ w[k] # "\r"
               /\ w # <<>> /\ w[Len(w)] = "\n"

\* The calls of run_single_test whose process ended by itself and whose
\* result was made from what it left.
Classified(n) ==
    /\ call[n] = "returned"
    /\ proc[n] = "exited"
    /\ behaviour[n].fault = "none"

\* C19: the protocol of a test is chosen by the files that exist, run-<name>
\* first. With run-<name> the command is `sh run-<name>` and the result
\* follows from the exit code alone, also when <name>.tests and <name>.right
\* exist; the shell under test is run on <name>.tests only when no run
\* script was selected and <name>.tests exists; the result of a call is that
\* of the one protocol its command belongs to.
C19_ProtocolSelection ==
    \A n \in DOMAIN cmd :
        cmd[n] # <<>> =>
            /\ RunScriptExists(n) => cmd[n] = <<"sh", "run-">> \o n
            /\ cmd[n][1] \in {"sh", "shell"}
            /\ cmd[n][1] = "shell" =>
                  /\ ~RunScriptExists(n)
                  /\ ~RunScriptExists(run_script_path(n))
                  /\ TestsFileExists(n)
                  /\ cmd[n] = <<"shell">> \o TestsFile(n)
            /\ (cmd[n][1] = "sh" /\ Classified(n)) =>
                  /\ ret[n].status \in {"pass", "fail"}
                  /\ ret[n].status = "pass" <=> behaviour[n].rc = 0
            /\ (cmd[n][1] = "shell" /\ Classified(n) /\ RightFileExists(n)) =>
                  /\ ret[n].status \in {"pass", "fail"}
                  /\ ret[n].status = "pass" <=>
                        read_text(ActualBytes(n)) = read_text(ExpectedBytes)

\* A test with run-<name>, <name>.tests and <name>.right all present passed
\* by its exit code although its output differs from <name>.right.
C19_Witness ==
    \E n \in DOMAIN cmd :
        /\ RunScriptExists(n) /\ TestsFileExists(n) /\ RightFileExists(n)
        /\ cmd[n] = <<"sh", "run-">> \o n
        /\ Classified(n)
        /\ behaviour[n].rc = 0
        /\ read_text(ActualBytes(n)) # read_text(ExpectedBytes)
        /\ ret[n].status = "pass"

\* C20: under the self-diffing protocol (`sh run-<name>`) a process that
\* ends within the timeout with exit code 0 gives pass; with any other exit
\* code it gives fail, with the captured stdout as output and the captured
\* stderr as error.
C20_SelfDiffingByExitCode ==
    \A n \in DOMAIN cmd :
        (cmd[n] # <<>> /\ cmd[n][1] = "sh" /\ call[n] = "returned" /\ proc[n] = "exited") =>
            LET b == behaviour[n]
            IN /\ b.rc = 0 => ret[n].status = "pass"
               /\ b.rc # 0 =>
                     /\ ret[n].status = "fail"
                     /\ ret[n].output = read_text(b.stdout)
                     /\ ret[n].error = read_text(b.stderr)

\* A run script exited with code 2 after writing to stdout and to stderr.
C20_Witness ==
    \E n \in DOMAIN cmd :
        /\ cmd[n] # <<>> /\ cmd[n][1] = "sh"
        /\ call[n] = "returned" /\ proc[n] = "exited"
        /\ behaviour[n].rc = 2
        /\ behaviour[n].stdout # <<>>
        /\ behaviour[n].stderr # <<>>
        /\ ret[n].status = "fail"
        /\ ret[n].output # ret[n].error

\* actual_output, as run_single_test reads it: the text of the scratch file
\* when the process wrote one, else the captured stdout followed by the
\* captured stderr.
ActualOutput(n) ==
    IF behaviour[n].scratch_written THEN read_text(behaviour[n].scratch)
    ELSE read_text(behaviour[n].stdout) \o read_text(behaviour[n].stderr)

\* C21: under the golden-file protocol, without <name>.right the exit code
\* alone decides (0 is pass, anything else fail); with <name>.right the
\* status follows from the comparison of the actual output with it, whatever
\* the exit code, and the actual output is the scratch file's content when
\* the file was written, else stdout followed by stderr.
C21_GoldenFallbackAndScratch ==
    \A n \in DOMAIN cmd :
        (cmd[n] # <<>> /\ cmd[n][1] = "shell" /\ Classified(n)) =>
            /\ ret[n].status \in {"pass", "fail"}
            /\ ~RightFileExists(n) =>
                  (ret[n].status = "pass" <=> behaviour[n].rc = 0)
            /\ RightFileExists(n) =>
                  /\ ret[n].output = ActualOutput(n)
                  /\ ret[n].status = "pass" <=>
                        ActualOutput(n) = read_text(ExpectedBytes)

\* With <name>.right present a process that exited with code 2 and wrote
\* the expected text to the scratch file, and something else to stdout,
\* passed.
C21_Witness ==
    \E n \in DOMAIN cmd :
        /\ cmd[n] # <<>> /\ cmd[n][1] = "shell" /\ Classified(n)
        /\ RightFileExists(n)
        /\ behaviour[n].rc = 2
        /\ behaviour[n].scratch_written
        /\ behaviour[n].scratch = ExpectedBytes
        /\ behaviour[n].stdout = WrongBytes
        /\ ret[n].status = "pass"

\* C22: after main has settled the job count, a suite asked for with one job
\* runs sequentially, one asked for with more than one job runs in parallel
\* on that many workers, and one asked for with zero jobs runs in parallel
\* on as many workers as the machine has CPUs.
C22_StrategyByJobCount ==
    pc \notin {"init", "failed"} =>
        /\ args_jobs = 1 => ~Parallel(jobs)
        /\ args_jobs > 1 => Parallel(jobs) /\ jobs = args_jobs
        /\ args_jobs = 0 => Parallel(jobs) /\ jobs = cpu_count

\* Two names that are both in a call were taken by different workers.
OneTestPerWorker ==
    \A n, m \in Running :
        n # m => worker[n][Len(worker[n])] # worker[m][Len(worker[m])]

\* C23: in parallel mode at most `jobs` tests are executing at any moment,
\* no worker is in two calls at once, no name is taken by a worker twice,
\* and when run_suite returns every submitted name has been taken by a
\* worker once.
C23_EachTestOnOneWorkerOnce ==
    (Parallel(jobs) /\ pc \in {"running", "returned"}) =>
        /\ Cardinality(Running) <= jobs
        /\ OneTestPerWorker
        /\ \A n \in TestSet : Len(worker[n]) <= 1
        /\ pc = "returned" => \A n \in TestSet : Len(worker[n]) = 1

\* C24: the environment given to a test process holds BUILD_DIR, THIS_SH
\* and a PATH that begins with the tests directory, and it holds BASH_TSTOUT
\* exactly when the process is run under the golden-file protocol.
C24_EnvironmentContract ==
    \A n \in DOMAIN cmd :
        cmd[n] # <<>> =>
            /\ {"BUILD_DIR", "THIS_SH", "PATH"} \subseteq DOMAIN env[n]
            /\ env[n]["BUILD_DIR"] = bash_source_dir
            /\ env[n]["THIS_SH"] = shell_path
            /\ StartsWith(env[n]["PATH"], tests_dir \o <<":">>)
            /\ "BASH_TSTOUT" \in DOMAIN env[n] <=> cmd[n][1] # "sh"

\* The alias rule applies to a name: it ends in -tests, run-<name> does not
\* exist and run-<name without -tests> does.
Aliased(n) ==
    EndsWithTests(n) /\ ~RunScriptExists(n) /\ RunScriptExists(StripTests(n))

\* C25: a call for an aliased name runs `sh run-<name without -tests>`, its
\* result follows from the exit code and carries the name it was called
\* with; a name with run-<name> runs `sh run-<name>`; a name that does not
\* end in -tests runs run-<name> or <name>.tests or nothing.
C25_AliasRule ==
    \A n \in TestSet :
        call[n] \in {"running", "returned"} =>
            /\ Aliased(n) =>
                  /\ cmd[n] = <<"sh", "run-">> \o StripTests(n)
                  /\ Classified(n) =>
                        /\ ret[n].status \in {"pass", "fail"}
                        /\ ret[n].status = "pass" <=> behaviour[n].rc = 0
            /\ RunScriptExists(n) => cmd[n] = <<"sh", "run-">> \o n
            /\ ~EndsWithTests(n) =>
                  cmd[n] \in {<<>>, <<"sh", "run-">> \o n, shell_path \o TestsFile(n)}
            /\ call[n] = "returned" => ret[n].name = n

\* x-tests, with run-x and x-tests.tests but no run-x-tests, ran `sh run-x`
\* and passed by its exit code under its own name.
C25_Witness ==
    \E n \in TestSet :
        /\ Aliased(n)
        /\ TestsFileExists(n)
        /\ Classified(n)
        /\ cmd[n] = <<"sh", "run-">> \o StripTests(n)
        /\ ret[n].name = n
        /\ ret[n].status = "pass"

\* C26: when the suite command has run all its suites and exits, without
\* --output-dir: with one suite and --json PATH the file PATH holds the
\* suite's result; with several suites and --json DIR the file
\* DIR/<suite>.json holds the result of each suite that was run.
C26_JsonPersistence ==
    (pc = "returned" /\ exit_code # <<>> /\ json_output # NoArg /\ output_dir = NoArg) =>
        /\ Len(suite_names) = 1 =>
              /\ json_output \in DOMAIN files
              /\ files[json_output] = suite_results[1]
        /\ Len(suite_names) > 1 =>
              \A i \in 1..Len(suite_names) :
                  LET f == json_output \o <<"/">> \o suite_names[i] \o <<".json">>
                  IN /\ f \in DOMAIN files
                     /\ \E k \in 1..Len(suite_results) :
                           suite_results[k].suite_name = suite_names[i]
                              /\ files[f] = suite_results[k]

\* C27: a resolution by get_suite_tests (any suite but all) of a suite whose
\* script exists gives at least one name.
C27_NeverSilentlyEmpty ==
    \A i \in 1..Len(resolved) :
        (suite_name # N_all /\ resolved[i].ok) => resolved[i].tests # <<>>

\* The call of get_suite_tests or list_tests has ended, by a return or by
\* the ValueError.
ResolutionEnded == resolving.pc \in {"returned", "raised"}

\* C28: every resolution ends, whatever the scripts of the directory refer
\* to; it opens no script but the suite's own, and what it returns is the
\* list of the resolution taken as one step.
C28_ResolutionTerminates ==
    /\ <>ResolutionEnded
    /\ [](resolving.opened <= 1)
    /\ [](resolving.pc = "returned" => resolving.tests = ResolveSuite(suite_name).tests)

\* The suite x was resolved to [y] where run-x and run-y both run run-x and
\* run-y.
C28_Witness ==
    /\ suite_name = N_x
    /\ run_scripts = Bg_cycle
    /\ resolving.pc = "returned"
    /\ resolving.tests = <<N_y>>

\* run_suite has returned a SuiteResult that holds a result for every
\* resolved name.
SuiteRunCompleted ==
    /\ pc = "returned"
    /\ \A n \in TestSet :
          \E i \in 1..Len(suite_result.tests) : suite_result.tests[i].name = n

\* C29: with fair scheduling, processes that end by themselves or at the
\* timeout, every suite run that has resolved its tests returns a
\* SuiteResult with a result for every one of them, in both strategies.
C29_EverySuiteRunCompletes == (pc = "running") ~> SuiteRunCompleted

\* C30: while a suite runs and when it has returned, passed_count and
\* failed_count are the numbers of pass and fail results collected so far,
\* in parallel mode completed_count is the number of results collected, and
\* the SuiteResult's passed and failed are the final counters.
C30_CountersAgreeWithResults ==
    pc \in {"running", "returned"} =>
        /\ counts.passed = CountStatus(results, "pass")
        /\ counts.failed = CountStatus(results, "fail")
        /\ Parallel(jobs) => counts.completed = Len(results)
        /\ pc = "returned" =>
              /\ suite_result.passed = counts.passed
              /\ suite_result.failed = counts.failed

\* A parallel run has returned after one future raised and the other tests
\* passed or failed: three results were counted, one of them passed and one
\* failed.
C30_Witness ==
    /\ pc = "returned"
    /\ Parallel(jobs)
    /\ \E n \in TestSet : call[n] \in {"raised", "broken"}
    /\ counts = [completed |-> 3, passed |-> 1, failed |-> 1]
    /\ Len(results) = 3

====
